---- MODULE Spec2Model ----
(***************************************************************************)
(* pleasure-utils: project-root discovery (findPackageJson, findRoot,      *)
(* findConfig), the extension registry (extendConfig,                      *)
(* getMiddlewareMutation) and the configuration resolver (getConfig) of    *)
(* src/lib/find-package-json.js.                                           *)
(*                                                                         *)
(* Paths are absolute and normalised: a path is the sequence of its        *)
(* segments, the filesystem root "/" is the empty sequence.  JavaScript    *)
(* values are records [id, t, v]: t is "p" (a number, boolean, null or     *)
(* undefined, v its literal), "s" (a string), "f" (a function, v its       *)
(* name), "o" (a plain object, v a function from its own keys to values)   *)
(* or "a" (an array, v a sequence of values); id is the identity of an     *)
(* object that lives in the module cache (its key path, under "c"), and    *)
(* <<>> for every other value.                                             *)
(***************************************************************************)
EXTENDS Naturals, Sequences, FiniteSets, TLC

VARIABLES
  files,            \* the filesystem: existing file path -> content
  cwd,              \* process.cwd()
  envRoot,          \* process.env.PLEASURE_ROOT: [set, path]
  fpCall,           \* the last findPackageJson call: [made, given, dir]
  fpResult,         \* what that call produced: [kind, path]
  requireCache,     \* require.cache: file path -> loaded module.exports
  middlewares,      \* own properties of the middlewares object: key -> array
  middlewaresProto, \* its prototype: [isArray, items] (Object.prototype when not an array)
  call,             \* the last operation and its arguments (path: where a caller wrote)
  loadedConfig,     \* the document the last getConfig call loaded: [ok, doc]
  mutation,         \* what getMiddlewareMutation gave the last getConfig call
  outcome,          \* how the last call ended: [kind, value, error, logged]
  didRead,          \* whether the last getConfig call read the configuration file
  evicted,          \* the cache entry that call deleted: "none", "same" as the file, "stale"
  plainLoads,       \* successful non-forced loads since the last forced load (0, 1, 2 = more)
  producerState,    \* what the function-valued contribution reads when it is called
  frResult,         \* the last findRoot call: [name, result], result [kind, path, probed]
  invoked,          \* the function-valued contributions the last call invoked, in order
  bodyCalls,        \* whether the configuration file's body calls getConfig() as it loads
  inner             \* what that call inside the body loaded: [made, doc]

rootVars == <<files, cwd, envRoot, fpCall, fpResult, frResult>>
configVars == <<requireCache, middlewares, middlewaresProto, call, loadedConfig,
                mutation, outcome, didRead, evicted, plainLoads, producerState,
                invoked, bodyCalls, inner>>
vars == <<files, cwd, envRoot, fpCall, fpResult, requireCache, middlewares,
          middlewaresProto, call, loadedConfig, mutation, outcome, didRead,
          evicted, plainLoads, producerState, frResult, invoked, bodyCalls, inner>>

(***************************************************************************)
(* Bounds.                                                                 *)
(***************************************************************************)
\* the deepest directory of the modelled tree
MaxDepth == 2
\* frames the engine's call stack holds before it throws a RangeError
MaxCallStack == 4
\* contributions registered over a run
MaxRegistered == 2
\* contributions registered over a run from inside a function-valued contribution
MaxLate == 1

(***************************************************************************)
(* Values.                                                                 *)
(***************************************************************************)
Prim(s) == [id |-> <<>>, t |-> "p", v |-> s]
Str(s) == [id |-> <<>>, t |-> "s", v |-> s]
Fn(s) == [id |-> <<>>, t |-> "f", v |-> s]
Obj(f) == [id |-> <<>>, t |-> "o", v |-> f]
Arr(s) == [id |-> <<>>, t |-> "a", v |-> s]
NoKeys == [k \in {} |-> Prim("undefined")]
EmptyObject == Obj(NoKeys)
Undefined == Prim("undefined")
Null == Prim("null")

\* ToBoolean of a value: the falsy primitives
Falsy(x) ==
  \/ x.t = "p" /\ x.v \in {"undefined", "null", "0", "false", "NaN"}
  \/ x.t = "s" /\ x.v = ""

\* the property names of array indices
IndexKey == <<"0", "1", "2", "3", "4", "5", "6", "7", "8", "9">>

(***************************************************************************)
(* Paths and the filesystem.                                               *)
(***************************************************************************)
DirNames == {"a", "b"}
RootPath == <<>>
MarkerName == "package.json"
ConfigName == "pleasure.config.js"

RECURSIVE DirsOfDepth(_)
DirsOfDepth(n) ==
  IF n = 0 THEN {RootPath}
  ELSE {Append(d, s) : d \in DirsOfDepth(n - 1), s \in DirNames}

Dirs == UNION {DirsOfDepth(n) : n \in 0..MaxDepth}

\* path.join(dir, name) for a file name
JoinName(dir, name) == Append(dir, name)

\* path.join(dir, '../'): the parent directory; the root is its own parent
JoinParent(dir) == IF dir = RootPath THEN RootPath ELSE SubSeq(dir, 1, Len(dir) - 1)

\* path.dirname(file)
Dirname(p) == JoinParent(p)

\* fs.existsSync(p)
existsSync(p) == p \in DOMAIN files

\* the results of a call: a returned value, or a thrown error; probed lists
\* the paths the call gave to existsSync, in order
Returned(x) == [kind |-> "returned", path |-> x, probed |-> <<>>]
ReturnedUndefined == [kind |-> "undefined", path |-> RootPath, probed |-> <<>>]
Threw(e) == [kind |-> e, path |-> RootPath, probed |-> <<>>]
NotCalled == [kind |-> "none", path |-> RootPath, probed |-> <<>>]

\* the result r of what follows a call of existsSync(local)
Probed(local, r) == [r EXCEPT !.probed = <<local>> \o @]

\* dir || path.resolve(process.cwd(), process.env.PLEASURE_ROOT || './')
StartDir(given, dir) ==
  IF given THEN dir
  ELSE IF envRoot.set THEN envRoot.path ELSE cwd

(***************************************************************************)
(* findPackageJson: the ascent from a directory to the nearest marker.     *)
(***************************************************************************)
RECURSIVE findPackageJsonFrom(_, _)
\* one activation of findPackageJson(dir), `depth` frames deep
findPackageJsonFrom(dir, depth) ==
  LET local == JoinName(dir, MarkerName) IN
  Probed(local,
    IF ~existsSync(local)
    THEN IF local = RootPath
         THEN ReturnedUndefined
         ELSE IF depth >= MaxCallStack
              THEN Threw("RangeError")
              ELSE findPackageJsonFrom(JoinParent(dir), depth + 1)
    ELSE Returned(local))

\* a findPackageJson that moves to the parent before it probes
findPackageJsonParentFirst(given, dir) ==
  findPackageJsonFrom(JoinParent(StartDir(given, dir)), 0)

\* findPackageJson(dir); given = FALSE is the call without an argument
findPackageJson(given, dir) == findPackageJsonFrom(StartDir(given, dir), 0)

\* what findRoot makes of the result pkg of findPackageJson():
\* path.resolve(path.dirname(pkg), name); path.dirname(undefined) throws
resolveFrom(pkg, name) ==
  IF pkg.kind = "returned"
  THEN [Returned(JoinName(Dirname(pkg.path), name)) EXCEPT !.probed = pkg.probed]
  ELSE IF pkg.kind = "undefined"
       THEN [Threw("TypeError") EXCEPT !.probed = pkg.probed]
       ELSE pkg

\* a findRoot that searches for the marker before it looks at PLEASURE_ROOT
findRootSearchesFirst(name) ==
  LET pkg == findPackageJson(FALSE, RootPath) IN
  IF envRoot.set
  THEN [Returned(JoinName(envRoot.path, name)) EXCEPT !.probed = pkg.probed]
  ELSE resolveFrom(pkg, name)

\* findRoot(...paths) with one path segment: the right operand of || is
\* evaluated only when PLEASURE_ROOT is unset or empty
findRoot(name) ==
  IF envRoot.set
  THEN Returned(JoinName(envRoot.path, name))
  ELSE resolveFrom(findPackageJson(FALSE, RootPath), name)

\* findConfig()
findConfig == findRoot(ConfigName)

(***************************************************************************)
(* deepmerge (imported as `merge`): the library's default options, which   *)
(* clone every mergeable value and concatenate arrays.                     *)
(***************************************************************************)
RECURSIVE deepmerge(_, _)

\* is-mergeable-object: a non-null object (plain object or array)
isMergeableObject(x) == x.t \in {"o", "a"}

\* emptyTarget(val)
emptyTarget(x) == IF x.t = "a" THEN Arr(<<>>) ELSE EmptyObject

\* cloneUnlessOtherwiseSpecified(value, options), options.clone left at its default
cloneUnlessOtherwiseSpecified(x) ==
  IF isMergeableObject(x) THEN deepmerge(emptyTarget(x), x) ELSE x

\* defaultArrayMerge(target, source, options)
defaultArrayMerge(target, source) ==
  LET all == target.v \o source.v IN
  Arr([i \in 1..Len(all) |-> cloneUnlessOtherwiseSpecified(all[i])])

\* Object.keys(x): the own keys of a plain object; a number, boolean or
\* function has none (no string is ever merged as a layer here)
ObjectKeys(x) == IF x.t = "o" THEN DOMAIN x.v ELSE {}

\* mergeObject(target, source, options)
mergeObject(target, source) ==
  LET tk == IF isMergeableObject(target) THEN ObjectKeys(target) ELSE {}
      sk == ObjectKeys(source)
  IN Obj([k \in tk \cup sk |->
            IF k \in sk
            THEN IF ~isMergeableObject(source.v[k]) \/ k \notin tk \/ Falsy(target.v[k])
                 THEN cloneUnlessOtherwiseSpecified(source.v[k])
                 ELSE deepmerge(target.v[k], source.v[k])
            ELSE cloneUnlessOtherwiseSpecified(target.v[k])])

\* deepmerge(target, source, options)
deepmerge(target, source) ==
  IF (source.t = "a") # (target.t = "a")
  THEN cloneUnlessOtherwiseSpecified(source)
  ELSE IF source.t = "a"
       THEN defaultArrayMerge(target, source)
       ELSE mergeObject(target, source)

RECURSIVE deepmergeFold(_, _)
\* array.reduce((prev, next) => deepmerge(prev, next, options), acc)
deepmergeFold(acc, layers) ==
  IF layers = <<>> THEN acc
  ELSE deepmergeFold(deepmerge(acc, Head(layers)), Tail(layers))

\* Object.assign({}, ...layers): a shallow merge, nested values kept by reference
assignAll(layers) ==
  LET objs == {i \in 1..Len(layers) : layers[i].t = "o"}
      keys == UNION {DOMAIN layers[i].v : i \in objs}
      last(k) == CHOOSE i \in objs :
                   /\ k \in DOMAIN layers[i].v
                   /\ \A j \in objs : k \in DOMAIN layers[j].v => j <= i
  IN Obj([k \in keys |-> layers[last(k)].v[k]])

\* merge.all(layers)
mergeAll(layers) == deepmergeFold(EmptyObject, layers)

(***************************************************************************)
(* Object identity: what require() puts in the module cache is one object  *)
(* graph, shared by every caller that gets a reference into it.            *)
(***************************************************************************)
RECURSIVE Own(_, _)
\* the object graph a module evaluation creates from a file's content
Own(x, p) ==
  IF x.t = "o"
  THEN [id |-> p, t |-> "o", v |-> [k \in DOMAIN x.v |-> Own(x.v[k], Append(p, k))]]
  ELSE IF x.t = "a"
       THEN [id |-> p, t |-> "a",
             v |-> [i \in 1..Len(x.v) |-> Own(x.v[i], Append(p, IndexKey[i]))]]
       ELSE x

RECURSIVE Content(_)
\* a value's content, identities left out
Content(x) ==
  IF x.t = "o"
  THEN Obj([k \in DOMAIN x.v |-> Content(x.v[k])])
  ELSE IF x.t = "a"
       THEN Arr([i \in 1..Len(x.v) |-> Content(x.v[i])])
       ELSE x

(***************************************************************************)
(* The extension registry: `const middlewares = {}`, a plain object used   *)
(* as a map from scope to an array of contributions.  A registry value is  *)
(* [mw, proto]: the object's own properties and its prototype.             *)
(***************************************************************************)
\* ToPropertyKey(x): a string is its own key, null is "null"
ToPropertyKey(x) == x.v

\* how a call ended
Done(x) == [kind |-> "returned", value |-> x, error |-> "", logged |-> FALSE]
Logged == [kind |-> "returned", value |-> Undefined, error |-> "", logged |-> TRUE]
Thrown(e) == [kind |-> "threw", value |-> Undefined, error |-> e, logged |-> FALSE]
NoOutcome == [kind |-> "none", value |-> Undefined, error |-> "", logged |-> FALSE]

\* the middlewares object as it is now
Registry == [mw |-> middlewares, proto |-> middlewaresProto]

\* middlewares.hasOwnProperty: the inherited method, unless an own property
\* of that name (an array of contributions) shadows it
hasOwnPropertyIsCallable(reg) == "hasOwnProperty" \notin DOMAIN reg.mw

\* middlewares.hasOwnProperty(key), where it is callable
hasOwnProperty(reg, key) == key \in DOMAIN reg.mw

\* the value read as middlewares[key]: an own array, the prototype for
\* "__proto__" (an array once one was assigned), undefined otherwise
StoredIn(reg, key) ==
  IF key \in DOMAIN reg.mw THEN reg.mw[key]
  ELSE IF key = "__proto__" /\ reg.proto.isArray THEN reg.proto.items
  ELSE <<>>

Stored(key) == StoredIn(Registry, key)

\* the contributions a registry holds
RegisteredIn(reg) ==
  LET RECURSIVE total(_)
      total(ks) == IF ks = {} THEN 0
                   ELSE LET k == CHOOSE x \in ks : TRUE IN
                        Len(reg.mw[k]) + total(ks \ {k})
  IN total(DOMAIN reg.mw) + Len(reg.proto.items)

Registered == RegisteredIn(Registry)

\* middlewares[key] = [] followed by middlewares[key].push(replacement), or the
\* push alone when the key is an own property: the own properties afterwards
pushOwn(reg, key, has, replacement) ==
  IF key = "__proto__" /\ ~has THEN reg.mw
  ELSE [k \in DOMAIN reg.mw \cup {key} |->
          IF k = key
          THEN Append(IF has THEN reg.mw[key] ELSE <<>>, replacement)
          ELSE reg.mw[k]]

\* the same two statements: the prototype afterwards (assigning to "__proto__"
\* sets the prototype, and the push then lands in that array)
pushProto(reg, key, has, replacement) ==
  IF key = "__proto__" /\ ~has
  THEN [isArray |-> TRUE, items |-> <<replacement>>]
  ELSE reg.proto

\* an extendConfig whose guard wants both arguments missing
extendConfigRejectsBoth(scope, replacement) == Falsy(scope) /\ Falsy(replacement)

\* extendConfig's guard: !scope || !replacement
extendConfigRejects(scope, replacement) == Falsy(scope) \/ Falsy(replacement)

\* extendConfig(scope, replacement) on the registry reg: [mw, proto, out]
extendConfig(reg, scope, replacement) ==
  LET key == ToPropertyKey(scope) IN
  IF extendConfigRejects(scope, replacement)
  THEN [mw |-> reg.mw, proto |-> reg.proto, out |-> Logged]
  ELSE IF ~hasOwnPropertyIsCallable(reg)
       THEN [mw |-> reg.mw, proto |-> reg.proto, out |-> Thrown("TypeError")]
       ELSE [mw |-> pushOwn(reg, key, hasOwnProperty(reg, key), replacement),
             proto |-> pushProto(reg, key, hasOwnProperty(reg, key), replacement),
             out |-> Done(Undefined)]

\* the function-valued contributions of the runs:
\*   producer  = () => ({ n: <the producer's state> })
\*   registrar = () => { extendConfig('x', { late: 1 }); return { r: 1 } }
Producer == Fn("producer")
Registrar == Fn("registrar")
ContribLate == Obj("late" :> Prim("1"))
RegistrarScope == Str("x")

\* a call of mutation() whose registrations are lost
callMutationLosesRegistration(m, reg) ==
  [value |-> IF m = Registrar THEN Obj("r" :> Prim("1"))
             ELSE Obj("n" :> Prim(producerState)),
   mw |-> reg.mw, proto |-> reg.proto]

\* mutation(): what the function returns, and the registry it leaves
\* [value, mw, proto]
callMutation(m, reg) ==
  IF m = Registrar
  THEN [value |-> Obj("r" :> Prim("1")),
        mw |-> extendConfig(reg, RegistrarScope, ContribLate).mw,
        proto |-> extendConfig(reg, RegistrarScope, ContribLate).proto]
  ELSE [value |-> Obj("n" :> Prim(producerState)), mw |-> reg.mw, proto |-> reg.proto]

RECURSIVE forEachMutation(_, _, _, _, _, _)
\* middlewares[scope].forEach(mutation => ...): Array.prototype.forEach reads
\* the length once (len) and then the elements of the live array at the
\* indices k..len; acc is middlewareMutation, calls the functions invoked
\* [value, mw, proto, calls]
forEachMutation(acc, reg, key, k, len, calls) ==
  IF k > len
  THEN [value |-> acc, mw |-> reg.mw, proto |-> reg.proto, calls |-> calls]
  ELSE IF reg.mw[key][k].t = "f"
       THEN forEachMutation(deepmerge(acc, callMutation(reg.mw[key][k], reg).value),
                            [mw |-> callMutation(reg.mw[key][k], reg).mw,
                             proto |-> callMutation(reg.mw[key][k], reg).proto],
                            key, k + 1, len, Append(calls, reg.mw[key][k].v))
       ELSE forEachMutation(deepmerge(acc, reg.mw[key][k]), reg, key, k + 1, len, calls)

\* getMiddlewareMutation(scope) on the registry reg: [out, mw, proto, calls]
getMiddlewareMutation(reg, scope) ==
  LET key == ToPropertyKey(scope) IN
  IF ~hasOwnPropertyIsCallable(reg)
  THEN [out |-> Thrown("TypeError"), mw |-> reg.mw, proto |-> reg.proto, calls |-> <<>>]
  ELSE IF ~hasOwnProperty(reg, key)
       THEN [out |-> Done(EmptyObject), mw |-> reg.mw, proto |-> reg.proto, calls |-> <<>>]
       ELSE [out |-> Done(forEachMutation(EmptyObject, reg, key, 1,
                                          Len(reg.mw[key]), <<>>).value),
             mw |-> forEachMutation(EmptyObject, reg, key, 1, Len(reg.mw[key]), <<>>).mw,
             proto |-> forEachMutation(EmptyObject, reg, key, 1,
                                       Len(reg.mw[key]), <<>>).proto,
             calls |-> forEachMutation(EmptyObject, reg, key, 1,
                                       Len(reg.mw[key]), <<>>).calls]

(***************************************************************************)
(* getConfig: load the configuration module, scope it, merge the layers.   *)
(***************************************************************************)
NoDoc == [ok |-> FALSE, doc |-> Undefined]
Loaded(d) == [ok |-> TRUE, doc |-> d]

\* the property names every object inherits from Object.prototype
ObjectPrototypeKeys == {"hasOwnProperty", "__proto__", "constructor", "toString"}

\* lodash get(object, key, defaultValue) for a key without dots
lodashGet(object, key, defaultValue) ==
  IF object.t = "o" /\ key \in DOMAIN object.v
  THEN IF object.v[key] = Undefined THEN defaultValue ELSE object.v[key]
  ELSE IF key \in ObjectPrototypeKeys THEN Fn(key)
  ELSE defaultValue

\* require.cache without the entry of `file`
cacheWithout(cache, file) == [f \in DOMAIN cache \ {file} |-> cache[f]]

\* require.cache with the module of `file` exporting x
cacheWith(cache, file, x) ==
  [f \in DOMAIN cache \cup {file} |-> IF f = file THEN x ELSE cache[f]]

\* a forced load that leaves the cache entry in place
cacheKept(cache, file, force) == cache

\* if (force) { delete require.cache[require.resolve(configFile)] }
cacheAfterForce(cache, file, force) ==
  IF force THEN cacheWithout(cache, file) ELSE cache

\* module.exports of a module whose body has not assigned it yet
InitialExports == Own(EmptyObject, <<"c">>)

\* a getConfig() call in the body of the configuration file, made before the
\* body assigns module.exports: its require(configFile) finds the module in
\* the cache and gets the exports as they are then; [made, doc, error]
NoInner == [made |-> FALSE, doc |-> Undefined, error |-> ""]
bodyGetConfig(cache, file) ==
  IF ~bodyCalls THEN NoInner
  ELSE [made |-> TRUE, doc |-> cache[file],
        error |-> getMiddlewareMutation(Registry, Null).out.error]

\* the module loader on a file that is not cached: the module enters the
\* cache with empty exports, the body runs, and the exports it assigns are
\* what the cache holds afterwards; a body that throws leaves no entry
loadModule(cache, file) ==
  LET seen == bodyGetConfig(cacheWith(cache, file, InitialExports), file) IN
  IF seen.error # ""
  THEN [cache |-> cacheWithout(cache, file), loaded |-> NoDoc, read |-> TRUE,
        error |-> seen.error, inner |-> seen]
  ELSE [cache |-> cacheWith(cache, file, Own(files[file], <<"c">>)),
        loaded |-> Loaded(Own(files[file], <<"c">>)), read |-> TRUE, error |-> "",
        inner |-> seen]

\* a require that reads the file whether or not the module is cached
requireAlwaysReads(cache, file) ==
  IF existsSync(file)
  THEN loadModule(cache, file)
  ELSE [cache |-> cache, loaded |-> NoDoc, read |-> FALSE,
        error |-> "MODULE_NOT_FOUND", inner |-> NoInner]

\* require(configFile): the cached module, or the file evaluated and cached
require(cache, file) ==
  IF file \in DOMAIN cache
  THEN [cache |-> cache, loaded |-> Loaded(cache[file]), read |-> FALSE, error |-> "",
        inner |-> NoInner]
  ELSE IF existsSync(file)
       THEN loadModule(cache, file)
       ELSE [cache |-> cache, loaded |-> NoDoc, read |-> FALSE,
             error |-> "MODULE_NOT_FOUND", inner |-> NoInner]

\* what a getConfig call deletes from the cache, against the file on disk
evictedEntry(force) ==
  IF ~force \/ findConfig.kind # "returned" THEN "none"
  ELSE IF findConfig.path \notin DOMAIN requireCache THEN "none"
  ELSE IF existsSync(findConfig.path)
          /\ Content(requireCache[findConfig.path]) = files[findConfig.path]
       THEN "same"
       ELSE "stale"

\* the layers of merge.all([...]) at lines 267-271, given the mutation
layers(loaded, scope, mut, mergeWith) ==
  << EmptyObject,
     IF ~Falsy(scope) THEN lodashGet(loaded, ToPropertyKey(scope), EmptyObject) ELSE loaded,
     mut,
     IF Falsy(mergeWith) THEN EmptyObject ELSE mergeWith >>

\* runMiddleware ? getMiddlewareMutation(scope) : {}
mutationOf(scope, runMiddleware) ==
  IF runMiddleware THEN getMiddlewareMutation(Registry, scope)
  ELSE [out |-> Done(EmptyObject), mw |-> middlewares, proto |-> middlewaresProto,
        calls |-> <<>>]

\* a resolved configuration that never got as far as the registry
Failed(cache, e, seen) ==
  [cache |-> cache, loaded |-> NoDoc, read |-> FALSE, mut |-> NoOutcome,
   out |-> Thrown(e), mw |-> middlewares, proto |-> middlewaresProto,
   calls |-> <<>>, inner |-> seen]

\* getConfig(scope, mergeWith, force, runMiddleware):
\* [cache, loaded, read, mut, out, mw, proto, calls, inner]
getConfig(scope, mergeWith, force, runMiddleware) ==
  LET configFile == findConfig IN
  IF configFile.kind # "returned"
  THEN Failed(requireCache, configFile.kind, NoInner)
  ELSE
    LET r == require(cacheAfterForce(requireCache, configFile.path, force), configFile.path)
        m == mutationOf(scope, runMiddleware)
    IN IF ~r.loaded.ok
       THEN Failed(r.cache, r.error, r.inner)
       ELSE [cache |-> r.cache, loaded |-> r.loaded, read |-> r.read,
             mut |-> IF runMiddleware THEN m.out ELSE NoOutcome,
             out |-> IF m.out.kind = "threw" THEN m.out
                     ELSE Done(mergeAll(layers(r.loaded.doc, scope, m.out.value, mergeWith))),
             mw |-> m.mw, proto |-> m.proto, calls |-> m.calls, inner |-> r.inner]

(***************************************************************************)
(* What the caller does with a returned object.                            *)
(***************************************************************************)
RECURSIVE NodePaths(_)
\* the key paths of the objects and arrays inside a value
NodePaths(x) ==
  IF x.t = "o"
  THEN {<<>>} \cup UNION {{<<k>> \o q : q \in NodePaths(x.v[k])} : k \in DOMAIN x.v}
  ELSE IF x.t = "a" THEN {<<>>} ELSE {}

RECURSIVE NodeAt(_, _)
NodeAt(x, p) == IF p = <<>> THEN x ELSE NodeAt(x.v[Head(p)], Tail(p))

\* node.port = 9999 on an object, node.push('z') on an array
Touched(x) ==
  IF x.t = "o"
  THEN [x EXCEPT !.v = [k \in DOMAIN x.v \cup {"port"} |->
                          IF k = "port" THEN Prim("9999") ELSE x.v[k]]]
  ELSE [x EXCEPT !.v = Append(x.v, Str("z"))]

RECURSIVE Write(_, _)
\* the value with the node at path p touched
Write(x, p) ==
  IF p = <<>> THEN Touched(x)
  ELSE [x EXCEPT !.v = [k \in DOMAIN x.v |->
                          IF k = Head(p) THEN Write(x.v[k], Tail(p)) ELSE x.v[k]]]

\* the module cache after the object of identity id was touched
cacheAfterWrite(id) ==
  IF id = <<>> THEN requireCache
  ELSE [f \in DOMAIN requireCache |->
          IF Tail(id) \in NodePaths(requireCache[f])
             /\ NodeAt(requireCache[f], Tail(id)).id = id
          THEN Write(requireCache[f], Tail(id))
          ELSE requireCache[f]]

(***************************************************************************)
(* The inputs of the runs.                                                 *)
(***************************************************************************)
DocA == Obj("api" :> Obj(("port" :> Prim("3000")) @@ ("host" :> Str("x"))))
DocB ==
  Obj(("api" :> Obj(("port" :> Prim("3001")) @@ ("tags" :> Arr(<<Str("t")>>))))
      @@ ("x" :> Obj(("a" :> Prim("0")) @@ ("tags" :> Arr(<<Str("t")>>)))))
ConfigDocs == {DocA, DocB}

OverridePort == Obj("port" :> Prim("4000"))
OverrideTags == Obj(("a" :> Prim("9")) @@ ("tags" :> Arr(<<Str("u")>>)))
Overrides == {Null, OverridePort, OverrideTags}

ContribA1 == Obj("a" :> Prim("1"))
ContribA2 == Obj(("a" :> Prim("2")) @@ ("b" :> Prim("3")))
ContribTags == Obj("tags" :> Arr(<<Str("m")>>))
ContribPort == Obj("port" :> Prim("5000"))

\* the extendConfig calls of the runs: <<scope, replacement>>
Registrations ==
  { <<Str("x"), ContribA1>>, <<Str("x"), ContribA2>>, <<Str("x"), ContribTags>>,
    <<Str("x"), Producer>>, <<Str("api"), ContribPort>>,
    <<Str("hasOwnProperty"), ContribA1>>,
    <<Str("__proto__"), ContribA1>>, <<Str("__proto__"), ContribA2>>,
    <<Str(""), ContribA1>>, <<Str("x"), Undefined>>, <<Str("null"), ContribA1>> }

\* the extendConfig calls of the runs with function-valued contributions
ComposeRegistrations ==
  { <<Str("x"), Registrar>>, <<Str("x"), Producer>>, <<Str("x"), ContribA2>>,
    <<Str("api"), Producer>> }

\* the extendConfig calls of the runs that edit the configuration file
LoadRegistrations ==
  { <<Str("api"), ContribPort>>, <<Str("hasOwnProperty"), ContribA1>> }

GetScopes == {Null, Str("api"), Str("x")}
LoadScopes == {Null, Str("api")}
ProducerStates == {"1", "2"}

NoEnv == [set |-> FALSE, path |-> RootPath]
Env(d) == [set |-> TRUE, path |-> d]

\* the marker files of the directories in S
MarkerFiles(S) == [p \in {JoinName(d, MarkerName) : d \in S} |-> EmptyObject]

\* a filesystem with a file more
WithFile(fs, p, content) ==
  [f \in DOMAIN fs \cup {p} |-> IF f = p THEN content ELSE fs[f]]

\* project layouts: <<filesystem, PLEASURE_ROOT>>
Layouts ==
  { <<WithFile(MarkerFiles({<<"a">>}), <<"a", ConfigName>>, DocA), NoEnv>>,
    <<MarkerFiles({<<"a">>}), NoEnv>>,
    <<WithFile(MarkerFiles({}), <<"b", ConfigName>>, DocA), Env(<<"b">>)>>,
    <<MarkerFiles({}), NoEnv>> }

\* the project of the runs that leave the configuration file alone
Project(d) == WithFile(MarkerFiles({<<"a">>}), <<"a", ConfigName>>, d)

NoCall ==
  [op |-> "none", scope |-> Null, arg |-> Undefined, force |-> FALSE,
   runMiddleware |-> FALSE, path |-> <<>>]

(***************************************************************************)
(* Initial states.                                                         *)
(***************************************************************************)
RootIdle ==
  /\ fpCall = [made |-> FALSE, given |-> FALSE, dir |-> RootPath]
  /\ fpResult = NotCalled
  /\ frResult = [name |-> "", result |-> NotCalled]

ConfigIdle ==
  /\ requireCache = <<>>
  /\ middlewares = <<>>
  /\ middlewaresProto = [isArray |-> FALSE, items |-> <<>>]
  /\ call = NoCall
  /\ loadedConfig = NoDoc
  /\ mutation = NoOutcome
  /\ outcome = NoOutcome
  /\ didRead = FALSE
  /\ evicted = "none"
  /\ plainLoads = 0
  /\ producerState = "1"
  /\ invoked = <<>>
  /\ bodyCalls = FALSE
  /\ inner = NoInner

Init ==
  /\ cwd = <<"a", "b">>
  /\ envRoot = NoEnv
  /\ \E d \in ConfigDocs : files = Project(d)
  /\ RootIdle
  /\ ConfigIdle

InitLoad ==
  /\ cwd = <<"a", "b">>
  /\ \E l \in Layouts : files = l[1] /\ envRoot = l[2]
  /\ RootIdle
  /\ ConfigIdle

\* a project whose configuration file may call getConfig() in its body
InitReload ==
  /\ cwd = <<"a", "b">>
  /\ envRoot = NoEnv
  /\ \E d \in ConfigDocs : files = Project(d)
  /\ RootIdle
  /\ requireCache = <<>>
  /\ middlewares = <<>>
  /\ middlewaresProto = [isArray |-> FALSE, items |-> <<>>]
  /\ call = NoCall
  /\ loadedConfig = NoDoc
  /\ mutation = NoOutcome
  /\ outcome = NoOutcome
  /\ didRead = FALSE
  /\ evicted = "none"
  /\ plainLoads = 0
  /\ producerState = "1"
  /\ invoked = <<>>
  /\ bodyCalls \in BOOLEAN
  /\ inner = NoInner

\* directory trees: at most two marked directories, any start directory
InitRoot ==
  /\ cwd \in Dirs
  /\ envRoot \in {NoEnv} \cup {Env(d) : d \in DirsOfDepth(1)}
  /\ \E S \in SUBSET Dirs : Cardinality(S) <= 2 /\ files = MarkerFiles(S)
  /\ RootIdle
  /\ ConfigIdle

(***************************************************************************)
(* Actions.                                                                *)
(***************************************************************************)
\* a call of findPackageJson(dir), or findPackageJson() when not given; the
\* record of the last findRoot call is cleared
CallFindPackageJson(given, dir) ==
  /\ fpCall' = [made |-> TRUE, given |-> given, dir |-> dir]
  /\ fpResult' = findPackageJson(given, dir)
  /\ frResult' = [name |-> "", result |-> NotCalled]
  /\ UNCHANGED <<files, cwd, envRoot, configVars>>

\* a call of findRoot(name); the record of the last direct findPackageJson
\* call is cleared
CallFindRoot(name) ==
  /\ frResult' = [name |-> name, result |-> findRoot(name)]
  /\ fpCall' = [made |-> FALSE, given |-> FALSE, dir |-> RootPath]
  /\ fpResult' = NotCalled
  /\ UNCHANGED <<files, cwd, envRoot, configVars>>

\* a call of extendConfig(scope, replacement)
ExtendConfig(scope, replacement) ==
  \E r \in {extendConfig(Registry, scope, replacement)} :
  /\ (r.out.kind = "returned" /\ ~r.out.logged) => Registered < MaxRegistered
  /\ middlewares' = r.mw
  /\ middlewaresProto' = r.proto
  /\ outcome' = r.out
  /\ call' = [op |-> "extendConfig", scope |-> scope, arg |-> replacement,
              force |-> FALSE, runMiddleware |-> FALSE, path |-> <<>>]
  /\ mutation' = NoOutcome
  /\ didRead' = FALSE
  /\ evicted' = "none"
  /\ invoked' = <<>>
  /\ inner' = NoInner
  /\ UNCHANGED <<rootVars, requireCache, loadedConfig, plainLoads,
                 producerState, bodyCalls>>

\* a call of getConfig(scope, mergeWith, force, runMiddleware)
GetConfig(scope, mergeWith, force, runMiddleware) ==
  \E r \in {getConfig(scope, mergeWith, force, runMiddleware)} :
  /\ RegisteredIn(r) <= MaxRegistered + MaxLate
  /\ requireCache' = r.cache
  /\ middlewares' = r.mw
  /\ middlewaresProto' = r.proto
  /\ invoked' = r.calls
  /\ inner' = r.inner
  /\ loadedConfig' = r.loaded
  /\ didRead' = r.read
  /\ evicted' = evictedEntry(force)
  /\ mutation' = r.mut
  /\ outcome' = r.out
  /\ call' = [op |-> "getConfig", scope |-> scope, arg |-> mergeWith,
              force |-> force, runMiddleware |-> runMiddleware, path |-> <<>>]
  /\ plainLoads' = IF findConfig.kind # "returned" THEN plainLoads
                   ELSE IF force THEN 0
                   ELSE IF r.loaded.ok /\ plainLoads < 2 THEN plainLoads + 1
                   ELSE plainLoads
  /\ UNCHANGED <<rootVars, producerState, bodyCalls>>

\* the configuration file is rewritten on disk
EditConfigFile(d) ==
  /\ findConfig.kind = "returned"
  /\ IF existsSync(findConfig.path) THEN files[findConfig.path] # d ELSE TRUE
  /\ files' = WithFile(files, findConfig.path, d)
  /\ call' = [NoCall EXCEPT !.op = "edit"]
  /\ outcome' = NoOutcome
  /\ mutation' = NoOutcome
  /\ didRead' = FALSE
  /\ evicted' = "none"
  /\ invoked' = <<>>
  /\ inner' = NoInner
  /\ UNCHANGED <<cwd, envRoot, fpCall, fpResult, frResult, requireCache, middlewares,
                 middlewaresProto, loadedConfig, plainLoads, producerState, bodyCalls>>

\* the configuration file is removed from disk
RemoveConfigFile ==
  /\ findConfig.kind = "returned"
  /\ existsSync(findConfig.path)
  /\ files' = [f \in DOMAIN files \ {findConfig.path} |-> files[f]]
  /\ call' = [NoCall EXCEPT !.op = "remove"]
  /\ outcome' = NoOutcome
  /\ mutation' = NoOutcome
  /\ didRead' = FALSE
  /\ evicted' = "none"
  /\ invoked' = <<>>
  /\ inner' = NoInner
  /\ UNCHANGED <<cwd, envRoot, fpCall, fpResult, frResult, requireCache, middlewares,
                 middlewaresProto, loadedConfig, plainLoads, producerState, bodyCalls>>

\* the caller writes into the object getConfig returned, at the node of path p
\* (outcome keeps the value as the call returned it)
MutateReturned(p) ==
  /\ call.op = "getConfig"
  /\ outcome.kind = "returned"
  /\ p \in NodePaths(outcome.value)
  /\ requireCache' = cacheAfterWrite(NodeAt(outcome.value, p).id)
  /\ call' = [call EXCEPT !.op = "mutate", !.path = p]
  /\ outcome' = outcome
  /\ mutation' = NoOutcome
  /\ didRead' = FALSE
  /\ evicted' = "none"
  /\ invoked' = <<>>
  /\ inner' = NoInner
  /\ UNCHANGED <<rootVars, middlewares, middlewaresProto, loadedConfig, plainLoads,
                 producerState, bodyCalls>>

\* the state the function-valued contribution reads changes
SetProducerState(v) ==
  /\ v # producerState
  /\ \E k \in DOMAIN middlewares : \E i \in 1..Len(middlewares[k]) :
        middlewares[k][i] = Producer
  /\ producerState' = v
  /\ call' = [NoCall EXCEPT !.op = "producer"]
  /\ outcome' = NoOutcome
  /\ mutation' = NoOutcome
  /\ didRead' = FALSE
  /\ evicted' = "none"
  /\ invoked' = <<>>
  /\ inner' = NoInner
  /\ UNCHANGED <<rootVars, requireCache, middlewares, middlewaresProto, loadedConfig,
                 plainLoads, bodyCalls>>

MutatePaths == {<<>>, <<"api">>, <<"tags">>, <<"api", "tags">>, <<"x">>}

Next ==
  \/ \E x \in Registrations : ExtendConfig(x[1], x[2])
  \/ \E s \in GetScopes, m \in Overrides, r \in BOOLEAN : GetConfig(s, m, FALSE, r)
  \/ \E p \in MutatePaths : MutateReturned(p)
  \/ \E v \in ProducerStates : SetProducerState(v)

\* runs that register, resolve and mutate, over a fixed configuration file
Spec == Init /\ [][Next]_vars

NextLoad ==
  \/ \E x \in LoadRegistrations : ExtendConfig(x[1], x[2])
  \/ \E s \in LoadScopes, f \in BOOLEAN, r \in BOOLEAN : GetConfig(s, Null, f, r)
  \/ \E d \in ConfigDocs : EditConfigFile(d)
  \/ RemoveConfigFile

\* runs that load and reload while the configuration file is edited on disk
SpecLoad == InitLoad /\ [][NextLoad]_vars

NextCompose ==
  \/ \E x \in ComposeRegistrations : ExtendConfig(x[1], x[2])
  \/ \E s \in GetScopes, r \in BOOLEAN : GetConfig(s, Null, FALSE, r)
  \/ \E v \in ProducerStates : SetProducerState(v)

\* runs whose contributions are functions: one reads the producer's state,
\* one registers a further contribution while the scope is being composed
SpecCompose == Init /\ [][NextCompose]_vars

NextReload ==
  \/ \E x \in LoadRegistrations : ExtendConfig(x[1], x[2])
  \/ \E s \in LoadScopes, f \in BOOLEAN : GetConfig(s, Null, f, TRUE)
  \/ \E d \in ConfigDocs : EditConfigFile(d)

\* runs that load and reload a configuration file whose body may call
\* getConfig() before it assigns module.exports
SpecReload == InitReload /\ [][NextReload]_vars

NextRoot ==
  \/ \E g \in BOOLEAN, d \in Dirs : CallFindPackageJson(g, d)
  \/ \E n \in {MarkerName, ConfigName} : CallFindRoot(n)

\* calls of findPackageJson over directory trees
SpecRoot == InitRoot /\ [][NextRoot]_vars

(***************************************************************************)
(* Properties of the registry and of the resolved configuration (Spec).    *)
(***************************************************************************)
IsPrefix(a, b) == Len(a) <= Len(b) /\ SubSeq(b, 1, Len(a)) = a

\* the scope names the runs register under
ScopeKeys == {x[1].v : x \in Registrations}

\* the values a sequence of layers supplies at key k, in layer order
RECURSIVE Supplied(_, _)
Supplied(vs, k) ==
  IF vs = <<>> THEN <<>>
  ELSE IF k \in DOMAIN Head(vs).v
       THEN <<Head(vs).v[k]>> \o Supplied(Tail(vs), k)
       ELSE Supplied(Tail(vs), k)

\* the objects at the end of a sequence of values: those after the last
\* value that is not a plain object
RECURSIVE TrailingObjects(_)
TrailingObjects(vs) ==
  IF vs = <<>> \/ vs[Len(vs)].t # "o" THEN <<>>
  ELSE Append(TrailingObjects(SubSeq(vs, 1, Len(vs) - 1)), vs[Len(vs)])

RECURSIVE LaterWins(_)
\* the layered merge as the specification words it, for the values vs that
\* the layers supply at one key path, in layer order: the last layer's value
\* wins; where the last layers supply objects, their keys are merged the
\* same way, so a key of one layer only is kept
LaterWins(vs) ==
  IF vs[Len(vs)].t # "o" THEN vs[Len(vs)]
  ELSE LET objs == TrailingObjects(vs)
           keys == UNION {DOMAIN objs[i].v : i \in 1..Len(objs)}
       IN Obj([k \in keys |-> LaterWins(Supplied(objs, k))])

\* a contribution's partial configuration: a function's is what it returns
Contributed(m) ==
  IF m = Registrar THEN Obj("r" :> Prim("1"))
  ELSE IF m.t = "f" THEN Obj("n" :> Prim(producerState))
  ELSE m

\* the composition the specification describes for a sequence of contributions
ExpectedComposeOf(ms) ==
  IF ms = <<>> THEN EmptyObject
  ELSE LaterWins(<<EmptyObject>> \o [i \in 1..Len(ms) |-> Contributed(ms[i])])

\* the composition the specification describes for the key of a scope
ExpectedCompose(key) == ExpectedComposeOf(Stored(key))

\* the scoped document of the last getConfig call
ScopedDocument ==
  IF Falsy(call.scope) THEN Content(loadedConfig.doc)
  ELSE IF call.scope.v \in DOMAIN loadedConfig.doc.v
       THEN Content(loadedConfig.doc.v[call.scope.v])
       ELSE EmptyObject

\* C3: a getConfig(scope, overrides) call that runs the extensions returns the
\* layered merge of {}, the scoped document, the composition for the scope
\* and the overrides: at every key path the later layer's value wins and a
\* key of one layer only is kept.
C3_ResolveIsLayeredMerge ==
  (call.op = "getConfig" /\ call.runMiddleware /\ loadedConfig.ok)
    => /\ outcome.kind = "returned"
       /\ Content(outcome.value) =
            LaterWins(<<EmptyObject, ScopedDocument,
                        ExpectedCompose(ToPropertyKey(call.scope)),
                        IF Falsy(call.arg) THEN EmptyObject ELSE call.arg>>)

\* C4: the composition getConfig obtains for a scope is {} when nothing is
\* registered for it, and otherwise the merge of the scope's contributions in
\* registration order, a later registration winning on a shared key.
C4_ComposeInRegistrationOrder ==
  (call.op = "getConfig" /\ call.runMiddleware /\ loadedConfig.ok)
    => /\ mutation.kind = "returned"
       /\ Content(mutation.value) = ExpectedCompose(ToPropertyKey(call.scope))

\* C5: every step leaves each scope's stored sequence a prefix of what is
\* stored afterwards, and an extendConfig call that is not rejected appends
\* exactly its contribution to its scope's sequence.
C5_RegistryIsAppendOnly ==
  /\ [][\A k \in ScopeKeys : IsPrefix(Stored(k), (Stored(k))')]_vars
  /\ [][\A k \in ScopeKeys :
          (call'.op = "extendConfig" /\ call'.scope.v = k
             /\ outcome'.kind = "returned" /\ ~outcome'.logged)
            => (Stored(k))' = Append(Stored(k), call'.arg)]_vars

\* C6: an extendConfig call with an empty scope or an absent contribution
\* returns after logging a diagnostic, does not throw, and leaves the
\* registry as it was.
C6_RejectedRegistrationIsSilent ==
  [][(call'.op = "extendConfig" /\ (Falsy(call'.scope) \/ Falsy(call'.arg)))
       => /\ outcome'.kind = "returned" /\ outcome'.logged
          /\ middlewares' = middlewares
          /\ middlewaresProto' = middlewaresProto]_vars

\* C6 witness: a call without a contribution was rejected with a diagnostic
\* while the registry held contributions.
C6_Witness ==
  /\ call.op = "extendConfig" /\ Falsy(call.arg) /\ ~Falsy(call.scope)
  /\ outcome.kind = "returned" /\ outcome.logged
  /\ Registered >= 1

\* C7: no extendConfig call throws.
C7_RegistrationNeverThrows ==
  call.op = "extendConfig" => outcome.kind # "threw"

\* C8: when the caller writes into an object that getConfig returned, at any
\* depth, the module cache is left as it was, and a getConfig call with the
\* same arguments and no forced reload then returns what the first call
\* returned.
C8_ResultDoesNotAliasCache ==
  /\ [][call'.op = "mutate" => requireCache' = requireCache]_vars
  /\ [][(call.op = "mutate" /\ call'.op = "getConfig" /\ ~call'.force
           /\ call'.scope = call.scope /\ call'.arg = call.arg
           /\ call'.runMiddleware = call.runMiddleware)
          => outcome' = outcome]_vars

\* C8 witness: the caller wrote into a nested object of a returned
\* configuration while the document was cached.
C8_Witness ==
  /\ call.op = "mutate" /\ Len(call.path) >= 1
  /\ DOMAIN requireCache # {}

(***************************************************************************)
(* Properties of the loads (SpecLoad).                                     *)
(***************************************************************************)
\* the configuration file's path, where the root resolves
ConfigPath == findConfig.path

\* the configuration file's content on disk is not the document d
DiskDiffers(d) ==
  IF existsSync(ConfigPath) THEN files[ConfigPath] # Content(d) ELSE TRUE

\* C1: a non-forced getConfig that follows a successful non-forced load, with
\* no forced load between them, loads the very document the earlier one
\* loaded and does not read the configuration file, whatever happened to the
\* file on disk in between.
C1_NonForcedLoadIsCached ==
  [][(call'.op = "getConfig" /\ ~call'.force /\ plainLoads >= 1 /\ loadedConfig.ok)
       => (loadedConfig' = loadedConfig /\ ~didRead')]_vars

\* C1 witness: a second non-forced load returned the cached document, without
\* a read, although the file on disk no longer holds it.
C1_Witness ==
  /\ call.op = "getConfig" /\ ~call.force
  /\ plainLoads = 2 /\ loadedConfig.ok /\ ~didRead
  /\ DiskDiffers(loadedConfig.doc)

\* C2: a forced getConfig, when the configuration file exists, deletes the
\* cache entry, reads the file and loads (and caches) the content now on
\* disk; and every non-forced getConfig after a successful load loads that
\* same document again.
C2_ForcedLoadIsFresh ==
  /\ [][(call'.op = "getConfig" /\ call'.force /\ findConfig.kind = "returned"
           /\ existsSync(ConfigPath))
          => /\ loadedConfig'.ok /\ didRead'
             /\ Content(loadedConfig'.doc) = files[ConfigPath]
             /\ ConfigPath \in DOMAIN requireCache'
             /\ requireCache'[ConfigPath] = loadedConfig'.doc]_vars
  /\ [][(call'.op = "getConfig" /\ ~call'.force /\ loadedConfig.ok)
          => loadedConfig' = loadedConfig]_vars

\* C2 witness: a forced load deleted a cache entry that no longer matched the
\* file, and loaded the edited content.
C2_Witness ==
  /\ call.op = "getConfig" /\ call.force
  /\ evicted = "stale" /\ didRead /\ loadedConfig.ok
  /\ Content(loadedConfig.doc) = DocB

(***************************************************************************)
(* Properties of findPackageJson (SpecRoot).                               *)
(***************************************************************************)
\* the directory the last findPackageJson call started from
FpStart == StartDir(fpCall.given, fpCall.dir)

\* a directory and its ancestors
AncestorsOrSelf(dir) == {SubSeq(dir, 1, n) : n \in 0..Len(dir)}

\* those of them that hold the marker file
MarkedAncestors(dir) ==
  {d \in AncestorsOrSelf(dir) : JoinName(d, MarkerName) \in DOMAIN files}

\* C9: findPackageJson started from a directory that is marked or has a marked
\* ancestor returns the marker of the nearest marked ancestor-or-self: the
\* deepest of the marked directories on the way up.
C9_NearestMarkedAncestor ==
  (fpCall.made /\ MarkedAncestors(FpStart) # {})
    => /\ fpResult.kind = "returned"
       /\ fpResult.path = JoinName(Dirname(fpResult.path), MarkerName)
       /\ Dirname(fpResult.path) \in MarkedAncestors(FpStart)
       /\ \A d \in MarkedAncestors(FpStart) : Len(d) <= Len(Dirname(fpResult.path))

\* C9 witness: the start directory is unmarked, two of its ancestors are
\* marked, and the call returned the marker of the nearer one.
C9_Witness ==
  /\ fpCall.made /\ fpResult.kind = "returned"
  /\ Cardinality(MarkedAncestors(FpStart)) = 2
  /\ FpStart \notin MarkedAncestors(FpStart)
  /\ Dirname(fpResult.path) # RootPath

\* C10: findPackageJson started from a directory with no marked ancestor
\* returns the empty result (undefined); it does not throw.
C10_UnmarkedReturnsEmpty ==
  (fpCall.made /\ MarkedAncestors(FpStart) = {}) => fpResult.kind = "undefined"

(***************************************************************************)
(* Properties of a load without a project root (SpecLoad).                 *)
(***************************************************************************)
\* the error a load throws for a configuration that is not there: the
\* module loader's, for a file it does not find
ConfigNotFound == "MODULE_NOT_FOUND"

\* the project root cannot be located: PLEASURE_ROOT is unset and neither
\* the working directory nor an ancestor of it holds the marker
RootNotLocated == ~envRoot.set /\ MarkedAncestors(cwd) = {}

\* C11: a getConfig call made where the project root cannot be located
\* throws the ConfigNotFound error, and nothing else: it returns no
\* document and throws no other error.
C11_NoRootIsConfigNotFound ==
  (call.op = "getConfig" /\ RootNotLocated)
    => (outcome.kind = "threw" /\ outcome.error = ConfigNotFound)

(***************************************************************************)
(* Properties of a whole-document getConfig() (Spec).                      *)
(***************************************************************************)
\* the last call is getConfig() without a scope and without overrides, with
\* the extensions run, on a loaded document
WholeDocumentCall ==
  /\ call.op = "getConfig" /\ Falsy(call.scope) /\ Falsy(call.arg)
  /\ call.runMiddleware /\ loadedConfig.ok

\* C12: once a contribution is registered under the scope api, getConfig()
\* returns the whole document with the composition for api merged into its
\* api subtree (the contribution's keys win, the subtree's other keys are
\* kept), and with every other scope as the document has it.
C12_ScopedContributionInWholeDocument ==
  (WholeDocumentCall /\ Stored("api") # <<>> /\ "api" \in DOMAIN loadedConfig.doc.v)
    => /\ outcome.kind = "returned"
       /\ DOMAIN outcome.value.v = DOMAIN loadedConfig.doc.v
       /\ Content(outcome.value.v["api"]) =
            LaterWins(<<Content(loadedConfig.doc.v["api"]), ExpectedCompose("api")>>)
       /\ \A k \in DOMAIN loadedConfig.doc.v \ {"api"} :
             Content(outcome.value.v[k]) = Content(loadedConfig.doc.v[k])

(***************************************************************************)
(* Properties of a forced reload seen from inside it (SpecReload).         *)
(***************************************************************************)
\* C13: a getConfig() call made while a forced reload is evaluating the
\* configuration file loads a complete document: the one on disk, which the
\* reload is bringing in, or the one the cache held before the reload;
\* never an empty or half-built module.
C13_ForcedReloadIsAtomic ==
  [][(call'.op = "getConfig" /\ call'.force /\ inner'.made)
       => \/ Content(inner'.doc) = files[ConfigPath]
          \/ IF ConfigPath \in DOMAIN requireCache
             THEN Content(inner'.doc) = Content(requireCache[ConfigPath])
             ELSE FALSE]_vars

(***************************************************************************)
(* Properties of function-valued contributions (SpecCompose, Spec).        *)
(***************************************************************************)
IsRegistrar(m) == m = Registrar

\* what the registrars of a sequence register when each is invoked once
LateOf(ms) == [i \in 1..Len(SelectSeq(ms, IsRegistrar)) |-> ContribLate]

\* C14: when a contribution of a scope registers a further contribution for
\* that scope while getConfig composes the scope, the composition is that of
\* the sequence as it was before the call or as it is after it, the new
\* contribution is appended whole to the scope's sequence, and no later
\* step takes it out again.
C14_RegisterDuringCompose ==
  /\ [][(call'.op = "getConfig" /\ call'.runMiddleware
           /\ \E i \in 1..Len(invoked') : invoked'[i] = Registrar.v)
          => /\ mutation'.kind = "returned"
             /\ Content(mutation'.value) \in
                  { ExpectedComposeOf(Stored(RegistrarScope.v)),
                    ExpectedComposeOf(Stored(RegistrarScope.v)
                                        \o LateOf(Stored(RegistrarScope.v))) }
             /\ (Stored(RegistrarScope.v))' =
                  Stored(RegistrarScope.v) \o LateOf(Stored(RegistrarScope.v))]_vars
  /\ [][IsPrefix(Stored(RegistrarScope.v), (Stored(RegistrarScope.v))')]_vars

\* C14 witness: a registrar that stands between two other contributions of
\* the scope was invoked, and its contribution now ends the sequence.
C14_Witness ==
  /\ call.op = "getConfig" /\ call.runMiddleware /\ mutation.kind = "returned"
  /\ Len(Stored(RegistrarScope.v)) = 3
  /\ Stored(RegistrarScope.v)[1] = Registrar
  /\ Stored(RegistrarScope.v)[2] # Registrar
  /\ Stored(RegistrarScope.v)[3] = ContribLate
  /\ invoked # <<>> /\ invoked[1] = Registrar.v

IsFunction(m) == m.t = "f"

\* the names of the function-valued contributions of a sequence, in order
FunctionsOf(ms) ==
  [i \in 1..Len(SelectSeq(ms, IsFunction)) |-> SelectSeq(ms, IsFunction)[i].v]

\* what the contributions of a sequence supply now, each function's being
\* what a call of it returns in the producer's present state
ContributedNow(ms) == [i \in 1..Len(ms) |-> Contributed(ms[i])]

\* C15: every getConfig call that runs the extensions invokes each
\* function-valued contribution of its scope once, in registration order,
\* and composes what those invocations return: the composition is the merge
\* of the scope's contributions with each function's value taken in the
\* producer's state at the time of the call.
C15_FunctionsInvokedOnEveryCompose ==
  (call.op = "getConfig" /\ call.runMiddleware /\ loadedConfig.ok
     /\ FunctionsOf(Stored(ToPropertyKey(call.scope))) # <<>>)
    => /\ invoked = FunctionsOf(Stored(ToPropertyKey(call.scope)))
       /\ mutation.kind = "returned"
       /\ Content(mutation.value) =
            Content(deepmergeFold(EmptyObject,
                                  ContributedNow(Stored(ToPropertyKey(call.scope)))))

(***************************************************************************)
(* Properties of getConfig without the extensions (Spec).                  *)
(***************************************************************************)
\* C16: a getConfig call with runMiddleware = false does not compose the
\* registry and invokes no contribution, and returns the layered merge of
\* the scoped document and the overrides alone (the later layer's value
\* wins at every key path), whatever the registry holds.
C16_NoExtensionsWhenDisabled ==
  (call.op = "getConfig" /\ ~call.runMiddleware /\ loadedConfig.ok)
    => /\ invoked = <<>>
       /\ mutation = NoOutcome
       /\ outcome.kind = "returned"
       /\ Content(outcome.value) =
            LaterWins(<<EmptyObject, ScopedDocument,
                        IF Falsy(call.arg) THEN EmptyObject ELSE call.arg>>)

(***************************************************************************)
(* Properties of the merge of arrays (Spec).                               *)
(***************************************************************************)
\* the keys at which a layer supplies an array
ArrayKeys(x) == IF x.t = "o" THEN {k \in DOMAIN x.v : x.v[k].t = "a"} ELSE {}

\* the last contribution of the scope of the last call
LastStored == Stored(ToPropertyKey(call.scope))[Len(Stored(ToPropertyKey(call.scope)))]

\* C17: the array that the last layer supplies at a key is the array of the
\* result at that key, whatever the earlier layers hold there: in what
\* getConfig returns for the arrays of the overrides, and in the
\* composition for the arrays of the scope's last contribution.
C17_LaterArrayReplaces ==
  (call.op = "getConfig" /\ outcome.kind = "returned")
    => /\ \A k \in ArrayKeys(call.arg) : Content(outcome.value.v[k]) = call.arg.v[k]
       /\ (mutation.kind = "returned" /\ Stored(ToPropertyKey(call.scope)) # <<>>)
            => \A k \in ArrayKeys(LastStored) :
                 Content(mutation.value.v[k]) = LastStored.v[k]

(***************************************************************************)
(* Properties of findRoot under PLEASURE_ROOT (SpecRoot).                  *)
(***************************************************************************)
\* C18: with PLEASURE_ROOT set, findRoot(name) returns the override joined
\* with the name and gives no path to existsSync: findPackageJson is not
\* called, and nothing is asked about a marker at the override.
C18_OverrideSkipsSearch ==
  (frResult.name # "" /\ envRoot.set)
    => /\ frResult.result.kind = "returned"
       /\ frResult.result.path = JoinName(envRoot.path, frResult.name)
       /\ frResult.result.probed = <<>>

\* C18 witness: findRoot returned a path under an override that holds no
\* marker, in a tree where the search from the working directory would
\* have found one.
C18_Witness ==
  /\ frResult.name # "" /\ envRoot.set
  /\ frResult.result.kind = "returned"
  /\ ~existsSync(JoinName(envRoot.path, MarkerName))
  /\ MarkedAncestors(cwd) # {}

(***************************************************************************)
(* Properties of the scopes of the registry (Spec).                        *)
(***************************************************************************)
\* the registry after the step
RegistryAfter == [mw |-> middlewares', proto |-> middlewaresProto']

\* C19: an extendConfig call under one scope leaves every other scope as it
\* was: the other scope's stored sequence is unchanged, and the composition
\* for it ends the same way, with the same value, after the call as before.
C19_ScopesAreIsolated ==
  [][\A b \in ScopeKeys \ {""} :
       (call'.op = "extendConfig" /\ ToPropertyKey(call'.scope) # b)
         => /\ StoredIn(RegistryAfter, b) = Stored(b)
            /\ getMiddlewareMutation(RegistryAfter, Str(b)).out
                 = getMiddlewareMutation(Registry, Str(b)).out]_vars

(***************************************************************************)
(* Properties of getConfig without a scope (Spec).                         *)
(***************************************************************************)
\* C20: a getConfig call without a scope gets the empty mutation whatever
\* is registered, under any scope name, and returns the layered merge of
\* the whole document and the overrides.
C20_NoScopeNoMutation ==
  (call.op = "getConfig" /\ Falsy(call.scope) /\ loadedConfig.ok)
    => /\ call.runMiddleware => mutation = Done(EmptyObject)
       /\ outcome.kind = "returned"
       /\ Content(outcome.value) =
            LaterWins(<<EmptyObject, Content(loadedConfig.doc),
                        IF Falsy(call.arg) THEN EmptyObject ELSE call.arg>>)

====
